---- MODULE Spec2Model ----
(***************************************************************************)
(* Model of the Rockside API client (src/src/api.ts): the RocksideApi     *)
(* class (constructor, send, extractError and the request-performing      *)
(* operations) and the two hex codec functions buf2hex / hex2buf.          *)
(*                                                                         *)
(* Representation of JavaScript values                                     *)
(*  - strings that the code concatenates only (urls, routes, header       *)
(*    values, JSON text) are TLA+ strings, built with \o;                  *)
(*  - strings that the code inspects character by character (hex strings  *)
(*    handled by buf2hex / hex2buf / toString(16) / parseInt, and every    *)
(*    string of a decoded response body) are sequences of one-character    *)
(*    strings; join turns such a sequence into a TLA+ string;              *)
(*  - an ArrayBuffer is a sequence of bytes 0..255;                        *)
(*  - undefined is the reserved string Undefined, which no input equals.   *)
(***************************************************************************)
EXTENDS Integers, Sequences, FiniteSets, TLC

VARIABLES
    ctor,       \* outcome of `new RocksideApi(opts)`: "none", "ok", "threw"
    ctorOpts,   \* the argument given to the constructor
    ctorError,  \* message of the Error thrown by the constructor, "" if none
    opts,       \* this.opts   (api.ts:97)
    headers,    \* this.headers (api.ts:98), a set of <<name, value>> pairs
    calls,      \* one frame per operation call that may be in flight
    buffer,     \* codec harness: the ArrayBuffer given to buf2hex
    hexstr,     \* codec harness: the string returned by buf2hex
    decoded,    \* codec harness: the ArrayBuffer returned by hex2buf
    cpc         \* codec harness: "input", "encoded", "decoded"

vars == <<ctor, ctorOpts, ctorError, opts, headers, calls, buffer, hexstr, decoded, cpc>>

clientVars == <<ctor, ctorOpts, ctorError, opts, headers, calls>>

codecVars == <<buffer, hexstr, decoded, cpc>>

(***************************************************************************)
(* Bounds                                                                  *)
(***************************************************************************)
\* number of call frames that can be in flight at once
MaxCalls == 2

\* longest sampled buffer of the codec harness
MaxBufLen == 2

\* tx.value ranges over 0..MaxValue and a few larger amounts
MaxValue == 17

\* undefined, among TLA+ strings and among character sequences
Undefined == "<undefined>"

undefined == <<Undefined>>

\* null, as the body given to fetch
Null == "<null>"

(***************************************************************************)
(* Hex codec (api.ts:368-380)                                              *)
(***************************************************************************)
Bytes == 0 .. 255

HexDigits == <<"0", "1", "2", "3", "4", "5", "6", "7",
               "8", "9", "a", "b", "c", "d", "e", "f">>

UpperHexDigits == <<"0", "1", "2", "3", "4", "5", "6", "7",
                    "8", "9", "A", "B", "C", "D", "E", "F">>

\* Number.prototype.toString(16) of an integer: shortest lowercase form,
\* a leading "-" for a negative number
RECURSIVE toString16(_)
toString16(x) ==
    IF x < 0 THEN <<"-">> \o toString16(0 - x)
    ELSE IF x < 16 THEN <<HexDigits[x + 1]>>
    ELSE toString16(x \div 16) \o <<HexDigits[(x % 16) + 1]>>

\* String.prototype.slice(-n): the last n characters (the whole string when
\* it is shorter)
sliceLast(s, n) ==
    IF Len(s) <= n THEN s ELSE SubSeq(s, Len(s) - n + 1, Len(s))

\* byte2hex without the zero padding
byte2hexNoPad(x) == toString16(x)

\* the callback of the map in buf2hex: ('00' + x.toString(16)).slice(-2)
byte2hex(x) == sliceLast(<<"0", "0">> \o toString16(x), 2)

\* Array.prototype.map.call(new Uint8Array(buffer), ...).join('')
RECURSIVE mapJoin(_)
mapJoin(b) ==
    IF b = <<>> THEN <<>> ELSE byte2hex(Head(b)) \o mapJoin(Tail(b))

buf2hex(b) == <<"0", "x">> \o mapJoin(b)

\* String.prototype.substring(from, to) with 0-based, end-exclusive indices
substring(s, from, to) ==
    LET t == IF to > Len(s) THEN Len(s) ELSE to
    IN  IF from >= t THEN <<>> ELSE SubSeq(s, from + 1, t)

\* value of one hexadecimal digit in either case, -1 for any other character
digitValue(ch) ==
    IF \E i \in 1 .. 16 : HexDigits[i] = ch
    THEN (CHOOSE i \in 1 .. 16 : HexDigits[i] = ch) - 1
    ELSE IF \E i \in 1 .. 16 : UpperHexDigits[i] = ch
    THEN (CHOOSE i \in 1 .. 16 : UpperHexDigits[i] = ch) - 1
    ELSE -1

\* the value of the longest prefix of hex digits of s, acc being the value
\* of the digits already read
RECURSIVE parseDigits(_, _)
parseDigits(s, acc) ==
    IF s = <<>> \/ digitValue(Head(s)) < 0 THEN acc
    ELSE parseDigits(Tail(s), acc * 16 + digitValue(Head(s)))

RECURSIVE trimStart(_)
trimStart(s) ==
    IF s # <<>> /\ Head(s) = " " THEN trimStart(Tail(s)) ELSE s

\* parseInt(s, 16): leading blanks, an optional sign and an optional 0x / 0X
\* prefix are skipped, then the longest prefix of hex digits is read; NaN
\* when there is no digit
parseInt16(s) ==
    LET t == trimStart(s)
        neg == t # <<>> /\ Head(t) = "-"
        u == IF t # <<>> /\ Head(t) \in {"-", "+"} THEN Tail(t) ELSE t
        v == IF Len(u) >= 2 /\ u[1] = "0" /\ u[2] \in {"x", "X"}
             THEN SubSeq(u, 3, Len(u)) ELSE u
    IN  IF v = <<>> \/ digitValue(Head(v)) < 0
        THEN [nan |-> TRUE, n |-> 0]
        ELSE [nan |-> FALSE,
              n |-> IF neg THEN 0 - parseDigits(v, 0) ELSE parseDigits(v, 0)]

\* the conversion done by a store into a Uint8Array element
toUint8(v) == IF v.nan THEN 0 ELSE v.n % 256

\* new Uint8Array(length) throws a RangeError unless length is an integer
hex2bufThrows(s) == (Len(substring(s, 2, Len(s))) % 2) = 1

\* hex2buf reading the digits in base 10
hex2bufDecimal(s) ==
    LET noPrefix == substring(s, 2, Len(s))
        length == Len(noPrefix) \div 2
    IN  [k \in 1 .. length |->
            toUint8([nan |-> FALSE,
                     n |-> digitValue(noPrefix[2 * k - 1]) * 10
                           + digitValue(noPrefix[2 * k])])]

hex2buf(s) ==
    LET noPrefix == substring(s, 2, Len(s))
        length == Len(noPrefix) \div 2
    IN  [k \in 1 .. length |->
            toUint8(parseInt16(substring(noPrefix, 2 * (k - 1), 2 * k)))]

(***************************************************************************)
(* JavaScript values of request bodies and JSON.stringify                  *)
(***************************************************************************)
JStr(s) == [t |-> "string", s |-> s, n |-> 0]

JNum(n) == [t |-> "number", s |-> "", n |-> n]

JBigInt(n) == [t |-> "bigint", s |-> "", n |-> n]

member(k, v) == [key |-> k, val |-> v]

\* an object literal, its members in insertion order
Obj(members) == [null |-> FALSE, members |-> members]

NullBody == [null |-> TRUE, members |-> <<>>]

\* a character sequence as a TLA+ string
RECURSIVE join(_)
join(cs) == IF cs = <<>> THEN "" ELSE Head(cs) \o join(Tail(cs))

quote(s) == "\"" \o s \o "\""

\* JSON.stringify throws a TypeError on a BigInt
stringifyThrows(body) ==
    \E i \in 1 .. Len(body.members) : body.members[i].val.t = "bigint"

stringifyValue(v) ==
    IF v.t = "string" THEN quote(v.s) ELSE ToString(v.n)

RECURSIVE stringifyMembers(_)
stringifyMembers(ms) ==
    IF ms = <<>> THEN ""
    ELSE quote(Head(ms).key) \o ":" \o stringifyValue(Head(ms).val)
         \o (IF Tail(ms) = <<>> THEN "" ELSE "," \o stringifyMembers(Tail(ms)))

\* JSON.stringify of an object whose values are strings and numbers
stringify(body) == "{" \o stringifyMembers(body.members) \o "}"

(***************************************************************************)
(* Construction (api.ts:100-132)                                           *)
(***************************************************************************)
\* truthiness of an optional string: undefined and '' are falsy
truthy(s) == s # Undefined /\ s # ""

\* generateHeaders sending the bare token
generateHeadersBareToken(o) ==
    IF truthy(o.apikey)
    THEN {<<"apikey", o.apikey>>}
    ELSE {<<"Authorization", IF o.token = Undefined THEN "undefined" ELSE o.token>>}

generateHeaders(o) ==
    IF truthy(o.apikey)
    THEN {<<"apikey", o.apikey>>}
    ELSE {<<"Authorization",
            "Bearer " \o (IF o.token = Undefined THEN "undefined" ELSE o.token)>>}

\* authenticationChecks without the test for a missing credential
authenticationChecksOnlyBoth(o) ==
    IF truthy(o.apikey) /\ truthy(o.token)
    THEN "Both access token and api key provided. Only one needed."
    ELSE ""

\* the message of the Error thrown, "" when the checks pass
authenticationChecks(o) ==
    IF truthy(o.apikey) /\ truthy(o.token)
    THEN "Both access token and api key provided. Only one needed."
    ELSE IF ~truthy(o.apikey) /\ ~truthy(o.token)
    THEN "No authentication method provided: define apikey or token."
    ELSE ""

NoOpts ==
    [baseUrl |-> Undefined, token |-> Undefined, apikey |-> Undefined,
     network |-> <<0, Undefined>>]

RocksideNetwork == {<<3, "ropsten">>, <<1, "mainnet">>}

AllOpts ==
    [baseUrl : {"https://x"}, token : {Undefined, "", "t"},
     apikey : {Undefined, "", "k"}, network : RocksideNetwork]

ConcOpts ==
    [baseUrl : {"https://x"}, token : {Undefined, "t"},
     apikey : {Undefined, "k"}, network : {<<1, "mainnet">>}]

Construct(o) ==
    /\ ctor = "none"
    /\ ctorOpts' = o
    /\ IF authenticationChecks(o) # ""
       THEN /\ ctor' = "threw"
            /\ ctorError' = authenticationChecks(o)
            /\ UNCHANGED <<opts, headers>>
       ELSE /\ ctor' = "ok"
            /\ headers' = generateHeaders(o)
            /\ opts' = o
            /\ UNCHANGED ctorError
    /\ UNCHANGED <<calls, codecVars>>

(***************************************************************************)
(* Responses, as fetch resolves them                                       *)
(***************************************************************************)
NoObj == [unused |-> <<>>]

\* a response body that is not JSON: resp.json() rejects with a SyntaxError
TextBody == [kind |-> "text", obj |-> NoObj, strs |-> <<>>, wallets |-> <<>>]

\* the JSON text `null`
NullJson == [kind |-> "null", obj |-> NoObj, strs |-> <<>>, wallets |-> <<>>]

\* a JSON object, given as the function from its keys to its string values
ObjectBody(o) == [kind |-> "object", obj |-> o, strs |-> <<>>, wallets |-> <<>>]

\* a JSON array of strings
StringsBody(a) == [kind |-> "strings", obj |-> NoObj, strs |-> a, wallets |-> <<>>]

\* a JSON array of objects
WalletsBody(a) == [kind |-> "wallets", obj |-> NoObj, strs |-> <<>>, wallets |-> a]

DbDown == <<"d", "b", " ", "d", "o", "w", "n">>

ErrorObj == [error |-> DbDown]

MessageObj == [message |-> <<"o", "o", "p", "s">>]

OkObj ==
    [address |-> <<"0", "x", "a", "d">>,
     transaction_hash |-> <<"0", "x", "7", "7">>,
     tracking_id |-> <<"i", "d">>,
     signed_message |-> <<"0", "x", "5", "1">>,
     encrypted_encryption_key |-> <<"0", "x", "0", "1", "f", "f">>,
     encryption_key_iv |-> <<"0", "x", "0", "A">>,
     nonce |-> <<"7">>,
     relayer |-> <<"0", "x", "e", "e">>]

\* an object whose hex fields have an odd number of digits
OddObj ==
    [encrypted_encryption_key |-> <<"0", "x", "1">>,
     encryption_key_iv |-> <<"0", "x">>,
     nonce |-> <<"0", "x", "1", "0">>]

OkWallets ==
    <<[encrypted_mnemonic |-> <<"0", "x", "0", "0", "1", "0">>,
       mnemonic_iv |-> <<"0", "x", "f", "e">>],
      [encrypted_mnemonic |-> <<"0", "x">>,
       mnemonic_iv |-> <<"0", "x", "z", "z">>]>>

OddWallets ==
    <<[encrypted_mnemonic |-> <<"0", "x", "0", "0", "1">>,
       mnemonic_iv |-> <<"0", "x", "f", "e">>]>>

Bodies ==
    {TextBody, NullJson, ObjectBody(ErrorObj), ObjectBody(MessageObj),
     ObjectBody(OkObj), ObjectBody(OddObj),
     StringsBody(<<>>), StringsBody(<<<<"0", "x", "a", "b", "c">>, <<"0", "x", "d", "e", "f">>>>),
     WalletsBody(OkWallets), WalletsBody(OddWallets)}

ConcBodies == {TextBody, ObjectBody(ErrorObj), ObjectBody(OkObj)}

Statuses == {200, 201, 409, 500}

ConcStatuses == {200, 409, 500}

\* the values fetch can reject with
TransportErrors ==
    {[name |-> "FetchError", message |-> <<"E", "C", "O", "N", "N">>],
     [name |-> "AbortError", message |-> <<"t", "i", "m", "e">>]}

ConcTransportErrors ==
    {[name |-> "FetchError", message |-> <<"E", "C", "O", "N", "N">>]}

(***************************************************************************)
(* Call frames                                                             *)
(***************************************************************************)
Calls == 1 .. MaxCalls

NoError == [name |-> "", message |-> <<>>]

NoValue == [void |-> TRUE]

NoOutcome == [kind |-> "none", value |-> NoValue, error |-> NoError]

NoResp == [status |-> 0, body |-> TextBody]

NoArgs == [none |-> TRUE]

Return(v) == [kind |-> "return", value |-> v, error |-> NoError]

Throw(e) == [kind |-> "throw", value |-> NoValue, error |-> e]

Error(m) == [name |-> "Error", message |-> m]

SyntaxError == [name |-> "SyntaxError", message |-> <<>>]

TypeError == [name |-> "TypeError", message |-> <<>>]

RangeError == [name |-> "RangeError", message |-> <<>>]

IdleFrame ==
    [pc |-> "idle", op |-> "", args |-> NoArgs, requests |-> <<>>,
     resp |-> NoResp, outcome |-> NoOutcome]

(***************************************************************************)
(* extractError and send (api.ts:134-146)                                  *)
(***************************************************************************)
\* json[k] of a decoded body that is not null
get(body, k) ==
    IF body.kind = "object" /\ k \in DOMAIN body.obj
    THEN body.obj[k] ELSE undefined

\* extractError reading the `message` field of the body
extractErrorMessageField(body) ==
    IF body.kind = "text" THEN [kind |-> "throw", value |-> NoValue, error |-> SyntaxError]
    ELSE IF body.kind = "null" THEN [kind |-> "throw", value |-> NoValue, error |-> TypeError]
    ELSE [kind |-> "throw", value |-> NoValue,
          error |-> [name |-> "Error",
                     message |-> IF get(body, "message") = undefined THEN <<>>
                                 ELSE get(body, "message")]]

\* the outcome of `throw await this.extractError(resp)`
extractError(body) ==
    IF body.kind = "text" THEN Throw(SyntaxError)
    ELSE IF body.kind = "null" THEN Throw(TypeError)
    ELSE IF get(body, "error") = undefined THEN Throw(Error(<<>>))
    ELSE Throw(Error(get(body, "error")))

\* send giving fetch no body for an object without members
sendNoEmptyObject(route, method, body) ==
    [url |-> opts.baseUrl \o route,
     method |-> method,
     body |-> IF ~body.null /\ body.members # <<>> THEN stringify(body) ELSE Null,
     headers |-> headers]

\* the request given to fetch
send(route, method, body) ==
    [url |-> opts.baseUrl \o route,
     method |-> method,
     body |-> IF ~body.null THEN stringify(body) ELSE Null,
     headers |-> headers]

\* the frame of an operation right after its call of send: suspended on
\* fetch, or already rejected when JSON.stringify threw inside send
invoke(op, args, route, method, body) ==
    IF ~body.null /\ stringifyThrows(body)
    THEN [pc |-> "settled", op |-> op, args |-> args, requests |-> <<>>,
          resp |-> NoResp, outcome |-> Throw(TypeError)]
    ELSE [pc |-> "awaitFetch", op |-> op, args |-> args,
          requests |-> <<send(route, method, body)>>,
          resp |-> NoResp, outcome |-> NoOutcome]

\* an operation is called on a constructed client, in a free frame
start(c, frame) ==
    /\ ctor = "ok"
    /\ calls[c].pc = "idle"
    /\ calls' = [calls EXCEPT ![c] = frame]
    /\ UNCHANGED <<ctor, ctorOpts, ctorError, opts, headers, codecVars>>

(***************************************************************************)
(* The operations, up to their call of send (api.ts:148-365)               *)
(***************************************************************************)
getIdentities(c) ==
    start(c, invoke("getIdentities", NoArgs,
                    "/ethereum/" \o opts.network[2] \o "/smartwallets",
                    "GET", NullBody))

createIdentity(c, forwarder, account) ==
    start(c, invoke("createIdentity",
                    [forwarder |-> forwarder, account |-> account],
                    "/ethereum/" \o opts.network[2] \o "/smartwallets",
                    "POST",
                    Obj(<<member("forwarder", JStr(forwarder)),
                          member("account", JStr(account))>>)))

getEOAs(c) ==
    start(c, invoke("getEOAs", NoArgs, "/ethereum/eoa", "GET", NullBody))

createEOA(c) ==
    start(c, invoke("createEOA", NoArgs, "/ethereum/eoa", "POST", Obj(<<>>)))

signMessageWithEOA(c, eoa, hash) ==
    start(c, invoke("signMessageWithEOA", [eoa |-> eoa, hash |-> hash],
                    "/ethereum/eoa/" \o eoa \o "/sign-message",
                    "POST",
                    Obj(<<member("message", JStr(hash))>>)))

\* tx is passed through as the body: txOpts lists its own properties
sendTransaction(c, txOpts) ==
    start(c, invoke("sendTransaction", [txOpts |-> txOpts],
                    "/ethereum/" \o opts.network[2] \o "/transaction",
                    "POST", Obj(txOpts)))

createEncryptedAccount(c, account) ==
    start(c, invoke("createEncryptedAccount", [account |-> account],
                    "/encryptedaccounts", "PUT",
                    Obj(<<member("username", JStr(account.username)),
                          member("password_hash",
                                 JStr(join(buf2hex(account.passwordHash)))),
                          member("encrypted_encryption_key",
                                 JStr(join(buf2hex(account.encryptedEncryptionKey)))),
                          member("encrypted_encryption_key_iv",
                                 JStr(join(buf2hex(account.encryptedEncryptionKeyIV)))),
                          member("iterations", JNum(account.iterations)),
                          member("password_derived_key_hash",
                                 JStr(join(buf2hex(account.passwordDerivedKeyHash))))>>)))

connectEncryptedAccount(c, username, passwordHash) ==
    start(c, invoke("connectEncryptedAccount",
                    [username |-> username, passwordHash |-> passwordHash],
                    "/encryptedaccounts/connect", "POST",
                    Obj(<<member("username", JStr(username)),
                          member("password_hash",
                                 JStr(join(buf2hex(passwordHash))))>>)))

createEncryptedWallet(c, account, wallet) ==
    start(c, invoke("createEncryptedWallet",
                    [account |-> account, wallet |-> wallet],
                    "/encryptedaccounts/wallets", "PUT",
                    Obj(<<member("username", JStr(account.username)),
                          member("password_hash",
                                 JStr(join(buf2hex(account.passwordHash)))),
                          member("encrypted_mnemonic",
                                 JStr(join(buf2hex(wallet.encryptedMnemonic)))),
                          member("encrypted_mnemonic_iv",
                                 JStr(join(buf2hex(wallet.encryptedMnemonicIV))))>>)))

getEncryptedWallets(c, username, passwordHash) ==
    start(c, invoke("getEncryptedWallets",
                    [username |-> username, passwordHash |-> passwordHash],
                    "/encryptedaccounts/wallets", "POST",
                    Obj(<<member("username", JStr(username)),
                          member("password_hash",
                                 JStr(join(buf2hex(passwordHash))))>>)))

deployIdentityContract(c, address) ==
    start(c, invoke("deployIdentityContract", [address |-> address],
                    "/ethereum/" \o opts.network[2]
                        \o "/contracts/relayableidentity",
                    "POST",
                    Obj(<<member("account", JStr(address))>>)))

getRelayParams(c, identity, account, channel) ==
    start(c, invoke("getRelayParams",
                    [identity |-> identity, account |-> account,
                     channel |-> channel],
                    "/ethereum/" \o opts.network[2]
                        \o "/contracts/relayableidentity/" \o identity
                        \o "/relayParams",
                    "POST",
                    Obj(<<member("account", JStr(account)),
                          member("channel_id", JStr(ToString(channel)))>>)))

\* relayTransaction sending the value in decimal behind the 0x prefix
relayTransactionDecimal(c, identity, tx) ==
    start(c, invoke("relayTransaction", [identity |-> identity, tx |-> tx],
                    "/ethereum/" \o opts.network[2]
                        \o "/contracts/relayableidentity/" \o identity
                        \o "/relayExecute",
                    "POST",
                    Obj(<<member("relayer", JStr(tx.relayer)),
                          member("from", JStr(tx.from)),
                          member("to", JStr(tx.to)),
                          member("value", JStr("0x" \o ToString(tx.value))),
                          member("data", JStr(join(buf2hex(tx.data)))),
                          member("signature", JStr(tx.signature))>>)))

relayTransaction(c, identity, tx) ==
    start(c, invoke("relayTransaction", [identity |-> identity, tx |-> tx],
                    "/ethereum/" \o opts.network[2]
                        \o "/contracts/relayableidentity/" \o identity
                        \o "/relayExecute",
                    "POST",
                    Obj(<<member("relayer", JStr(tx.relayer)),
                          member("from", JStr(tx.from)),
                          member("to", JStr(tx.to)),
                          member("value",
                                 JStr("0x" \o join(toString16(tx.value)))),
                          member("data", JStr(join(buf2hex(tx.data)))),
                          member("signature", JStr(tx.signature))>>)))

getTransaction(c, txHashOrTrackingId) ==
    start(c, invoke("getTransaction",
                    [txHashOrTrackingId |-> txHashOrTrackingId],
                    "/ethereum/" \o opts.network[2] \o "/transactions/"
                        \o txHashOrTrackingId,
                    "GET", NullBody))

\* synchronous accessors: no request, the result is there at once
getRpcUrl(c) ==
    start(c, [pc |-> "settled", op |-> "getRpcUrl", args |-> NoArgs,
              requests |-> <<>>, resp |-> NoResp,
              outcome |-> Return([url |-> opts.baseUrl \o "/ethereum/"
                                     \o opts.network[2] \o "/jsonrpc"])])

getToken(c) ==
    start(c, [pc |-> "settled", op |-> "getToken", args |-> NoArgs,
              requests |-> <<>>, resp |-> NoResp,
              outcome |-> Return([token |-> opts.token])])

(***************************************************************************)
(* The operations, after fetch resolved                                    *)
(***************************************************************************)
\* the status tests with 409 an error for createEncryptedAccount too
statusOkNo409(op, status) ==
    IF op \in {"createIdentity", "createEncryptedWallet",
               "deployIdentityContract", "createEncryptedAccount"}
    THEN status = 201
    ELSE status = 200

\* the status test of each operation
statusOk(op, status) ==
    IF op \in {"createIdentity", "createEncryptedWallet",
               "deployIdentityContract"}
    THEN status = 201
    ELSE IF op = "createEncryptedAccount"
    THEN status = 201 \/ status = 409
    ELSE status = 200

\* the operations that return without reading the body of a response of an
\* expected status
ignoresBody(op) == op \in {"createEncryptedAccount", "createEncryptedWallet"}

\* Number(s) of a string or undefined
Number(s) ==
    IF s = undefined THEN [nan |-> TRUE, n |-> 0]
    ELSE IF s = <<>> THEN [nan |-> FALSE, n |-> 0]
    ELSE IF \A i \in 1 .. Len(s) : digitValue(s[i]) \in 0 .. 9
    THEN [nan |-> FALSE,
          n |-> LET RECURSIVE dec(_, _)
                    dec(t, acc) == IF t = <<>> THEN acc
                                   ELSE dec(Tail(t), acc * 10 + digitValue(Head(t)))
                IN  dec(s, 0)]
    ELSE IF Len(s) > 2 /\ s[1] = "0" /\ s[2] \in {"x", "X"}
            /\ \A i \in 3 .. Len(s) : digitValue(s[i]) >= 0
    THEN [nan |-> FALSE, n |-> parseDigits(SubSeq(s, 3, Len(s)), 0)]
    ELSE [nan |-> TRUE, n |-> 0]

\* the outcome of hex2buf(s) on each of the strings ss, in order: the first
\* that throws decides
hexThrow(ss) ==
    IF \E i \in 1 .. Len(ss) : ss[i] = undefined \/ hex2bufThrows(ss[i])
    THEN LET i == CHOOSE j \in 1 .. Len(ss) :
                     /\ ss[j] = undefined \/ hex2bufThrows(ss[j])
                     /\ \A k \in 1 .. j - 1 :
                            ss[k] # undefined /\ ~hex2bufThrows(ss[k])
         IN  IF ss[i] = undefined THEN Throw(TypeError) ELSE Throw(RangeError)
    ELSE NoOutcome

\* the strings the map callback of getEncryptedWallets gives to hex2buf
RECURSIVE walletHex(_)
walletHex(ws) ==
    IF ws = <<>> THEN <<>>
    ELSE <<Head(ws).encrypted_mnemonic, Head(ws).mnemonic_iv>>
         \o walletHex(Tail(ws))

\* the rest of an operation once resp.json() resolved with json, which is
\* any decoded body (never a TextBody), the status being an expected one
decode(op, json) ==
    IF op \in {"getIdentities", "getEOAs", "getTransaction"}
    THEN Return([json |-> json])
    ELSE IF json.kind = "null" THEN Throw(TypeError)
    ELSE IF op = "createIdentity"
    THEN Return([address |-> get(json, "address"),
                 transactionHash |-> get(json, "transaction_hash")])
    ELSE IF op = "createEOA"
    THEN Return([address |-> get(json, "address")])
    ELSE IF op = "signMessageWithEOA"
    THEN Return([signed_message |-> get(json, "signed_message")])
    ELSE IF op \in {"sendTransaction", "relayTransaction"}
    THEN Return([transaction_hash |-> get(json, "transaction_hash"),
                 tracking_id |-> get(json, "tracking_id")])
    ELSE IF op = "connectEncryptedAccount"
    THEN LET ss == <<get(json, "encrypted_encryption_key"),
                     get(json, "encryption_key_iv")>>
         IN  IF hexThrow(ss) # NoOutcome THEN hexThrow(ss)
             ELSE Return([data |-> hex2buf(ss[1]), iv |-> hex2buf(ss[2])])
    ELSE IF op = "getEncryptedWallets"
    THEN IF json.kind = "object" THEN Throw(TypeError)
         ELSE IF json.kind = "strings"
         THEN IF json.strs = <<>> THEN Return([wallets |-> <<>>])
              ELSE Throw(TypeError)
         ELSE IF hexThrow(walletHex(json.wallets)) # NoOutcome
         THEN hexThrow(walletHex(json.wallets))
         ELSE Return([wallets |->
                 [i \in 1 .. Len(json.wallets) |->
                    [encryptedMnemonic |->
                         hex2buf(json.wallets[i].encrypted_mnemonic),
                     encryptedMnemonicIV |->
                         hex2buf(json.wallets[i].mnemonic_iv)]]])
    ELSE IF op = "deployIdentityContract"
    THEN Return([address |-> get(json, "address"),
                 txHash |-> get(json, "transaction_hash")])
    ELSE Return([nonce |-> Number(get(json, "nonce")),
                 relayer |-> get(json, "relayer")])

\* the outcome of an operation whose resp.json() settled
settle(op, resp) ==
    IF ~statusOk(op, resp.status) THEN extractError(resp.body)
    ELSE IF resp.body.kind = "text" THEN Throw(SyntaxError)
    ELSE decode(op, resp.body)

\* fetch resolves with a response: the operation tests the status, then
\* either returns or suspends on resp.json()
FetchResolve(c, status, body) ==
    /\ calls[c].pc = "awaitFetch"
    /\ LET resp == [status |-> status, body |-> body]
       IN  calls' = [calls EXCEPT ![c] =
              IF statusOk(calls[c].op, status) /\ ignoresBody(calls[c].op)
              THEN [@ EXCEPT !.pc = "settled", !.resp = resp,
                             !.outcome = Return(NoValue)]
              ELSE [@ EXCEPT !.pc = "awaitJson", !.resp = resp]]
    /\ UNCHANGED <<ctor, ctorOpts, ctorError, opts, headers, codecVars>>

\* fetch rejects: the rejection goes through send and the operation
FetchReject(c, err) ==
    /\ calls[c].pc = "awaitFetch"
    /\ calls' = [calls EXCEPT ![c] =
                    [@ EXCEPT !.pc = "settled", !.outcome = Throw(err)]]
    /\ UNCHANGED <<ctor, ctorOpts, ctorError, opts, headers, codecVars>>

\* JsonSettle with the response kept in one field shared by the calls: the
\* operation reads the response that arrived last, here the one of the
\* highest frame holding a response
JsonSettleShared(c) ==
    /\ calls[c].pc = "awaitJson"
    /\ LET last == CHOOSE d \in Calls :
                      /\ calls[d].resp.status # 0
                      /\ \A e \in Calls : calls[e].resp.status # 0 => e <= d
       IN  calls' = [calls EXCEPT ![c] =
                       [@ EXCEPT !.pc = "settled",
                                 !.outcome = settle(calls[c].op, calls[last].resp)]]
    /\ UNCHANGED <<ctor, ctorOpts, ctorError, opts, headers, codecVars>>

\* resp.json() settles and the operation runs to its end
JsonSettle(c) ==
    /\ calls[c].pc = "awaitJson"
    /\ calls' = [calls EXCEPT ![c] =
                    [@ EXCEPT !.pc = "settled",
                              !.outcome = settle(calls[c].op, calls[c].resp)]]
    /\ UNCHANGED <<ctor, ctorOpts, ctorError, opts, headers, codecVars>>

\* the caller has the outcome; the frame is free for another call
Settled(c) ==
    /\ calls[c].pc = "settled"
    /\ calls' = [calls EXCEPT ![c] = IdleFrame]
    /\ UNCHANGED <<ctor, ctorOpts, ctorError, opts, headers, codecVars>>

(***************************************************************************)
(* Codec harness: buf2hex, then hex2buf, on a chosen buffer                *)
(***************************************************************************)
SampleBytes == {0, 1, 9, 10, 15, 16, 127, 128, 255}

\* every buffer of one byte, and the buffers of up to MaxBufLen sampled bytes
CodecBuffers ==
    [1 .. 1 -> Bytes]
        \cup UNION {[1 .. n -> SampleBytes] : n \in 0 .. MaxBufLen}

Encode ==
    /\ cpc = "input"
    /\ hexstr' = buf2hex(buffer)
    /\ cpc' = "encoded"
    /\ UNCHANGED <<buffer, decoded, clientVars>>

Decode ==
    /\ cpc = "encoded"
    /\ decoded' = hex2buf(hexstr)
    /\ cpc' = "decoded"
    /\ UNCHANGED <<buffer, hexstr, clientVars>>

(***************************************************************************)
(* Inputs of the operations                                                *)
(***************************************************************************)
Addresses == {"0xa1", "0xb2"}

Buffers == {<<>>, <<0>>, <<1, 255>>}

Values == (0 .. MaxValue) \cup {255, 256, 4095}

ExecuteTransactions ==
    [relayer : {"0xre"}, from : {"0xa1"}, to : {"0xb2"}, value : Values,
     data : Buffers, gas : {21000}, gasPrice : {1}, signature : {"0x51"}]

\* TransactionOpts objects: from alone, or with a value that is a number,
\* a string or a BigInt
TransactionOptsSet ==
    {<<member("from", JStr("0xa1"))>>}
        \cup {<<member("from", JStr("0xa1")), member("value", v)>> :
                 v \in {JNum(255), JStr("0xff"), JBigInt(1)}}

EncryptedAccounts ==
    [username : {"bob"}, iterations : {1000}, passwordHash : Buffers,
     passwordDerivedKeyHash : {<<2>>}, encryptedEncryptionKey : {<<3, 4>>},
     encryptedEncryptionKeyIV : {<<5>>}]

EncryptedWallets ==
    [encryptedMnemonic : {<<6, 7>>}, encryptedMnemonicIV : {<<8>>}]

Channels == {0, 12}

ConcTransactions ==
    {tx \in ExecuteTransactions : tx.value = 255 /\ tx.data = <<1, 255>>}

ConcAccounts == {a \in EncryptedAccounts : a.passwordHash = <<1, 255>>}

(***************************************************************************)
(* Specifications                                                          *)
(***************************************************************************)
ClientInit ==
    /\ ctor = "none"
    /\ ctorOpts = NoOpts
    /\ ctorError = ""
    /\ opts = NoOpts
    /\ headers = {}
    /\ calls = [c \in Calls |-> IdleFrame]

Init ==
    /\ ClientInit
    /\ buffer = <<>>
    /\ hexstr = <<>>
    /\ decoded = <<>>
    /\ cpc = "input"

\* one client, its operations called one after the other
Next ==
    \/ \E o \in AllOpts : Construct(o)
    \/ getIdentities(1)
    \/ \E f \in {"0xf0"}, a \in Addresses : createIdentity(1, f, a)
    \/ getEOAs(1)
    \/ createEOA(1)
    \/ \E e \in Addresses, h \in {"0x1234"} : signMessageWithEOA(1, e, h)
    \/ \E t \in TransactionOptsSet : sendTransaction(1, t)
    \/ \E a \in EncryptedAccounts : createEncryptedAccount(1, a)
    \/ \E b \in Buffers : connectEncryptedAccount(1, "bob", b)
    \/ \E a \in EncryptedAccounts, w \in EncryptedWallets :
           createEncryptedWallet(1, a, w)
    \/ \E b \in Buffers : getEncryptedWallets(1, "bob", b)
    \/ \E a \in Addresses : deployIdentityContract(1, a)
    \/ \E ch \in Channels : getRelayParams(1, "0x1d", "0xa1", ch)
    \/ \E tx \in ExecuteTransactions : relayTransaction(1, "0x1d", tx)
    \/ \E t \in {"0x77", "id"} : getTransaction(1, t)
    \/ getRpcUrl(1)
    \/ getToken(1)
    \/ \E st \in Statuses, b \in Bodies : FetchResolve(1, st, b)
    \/ \E e \in TransportErrors : FetchReject(1, e)
    \/ JsonSettle(1)
    \/ Settled(1)

Spec == Init /\ [][Next]_vars

\* one client, several of its operations in flight at once
ConcNext ==
    \/ \E o \in ConcOpts : Construct(o)
    \/ \E c \in Calls : getIdentities(c)
    \/ \E c \in Calls, a \in ConcAccounts : createEncryptedAccount(c, a)
    \/ \E c \in Calls, tx \in ConcTransactions : relayTransaction(c, "0x1d", tx)
    \/ \E c \in Calls, st \in ConcStatuses, b \in ConcBodies :
           FetchResolve(c, st, b)
    \/ \E c \in Calls, e \in ConcTransportErrors : FetchReject(c, e)
    \/ \E c \in Calls : JsonSettle(c)
    \/ \E c \in Calls : Settled(c)

ConcSpec == Init /\ [][ConcNext]_vars

CodecInit ==
    /\ ClientInit
    /\ buffer \in CodecBuffers
    /\ hexstr = <<>>
    /\ decoded = <<>>
    /\ cpc = "input"

CodecNext == Encode \/ Decode

CodecSpec == CodecInit /\ [][CodecNext]_vars

(***************************************************************************)
(* Properties                                                              *)
(***************************************************************************)
RequestOps ==
    {"getIdentities", "createIdentity", "getEOAs", "createEOA",
     "signMessageWithEOA", "sendTransaction", "createEncryptedAccount",
     "connectEncryptedAccount", "createEncryptedWallet",
     "getEncryptedWallets", "deployIdentityContract", "getRelayParams",
     "relayTransaction", "getTransaction"}

\* the expected statuses of each operation, as the specification lists them
ExpectedStatus(op) ==
    IF op \in {"createIdentity", "createEncryptedWallet",
               "deployIdentityContract"} THEN {201}
    ELSE IF op = "createEncryptedAccount" THEN {201, 409}
    ELSE {200}

\* a call of a request-performing operation that got a response and ended
Answered(c) ==
    /\ calls[c].pc = "settled"
    /\ calls[c].op \in RequestOps
    /\ calls[c].resp.status # 0

\* a credential counts as supplied when it is a non-empty string, which is
\* the test the constructor applies
supplied(s) == s # Undefined /\ s # ""

\* C1: construction throws a configuration error when both apikey and token
\* are supplied, throws one when neither is, succeeds when exactly one is;
\* after a failed construction no request has been issued.
C1_Construction ==
    ctor # "none" =>
        /\ (supplied(ctorOpts.apikey) /\ supplied(ctorOpts.token))
               => (ctor = "threw" /\ ctorError # "")
        /\ (~supplied(ctorOpts.apikey) /\ ~supplied(ctorOpts.token))
               => (ctor = "threw" /\ ctorError # "")
        /\ (supplied(ctorOpts.apikey) # supplied(ctorOpts.token))
               => (ctor = "ok" /\ ctorError = "")
        /\ ctor = "threw" =>
               \A c \in Calls : calls[c].pc = "idle" /\ calls[c].requests = <<>>

C1_Witness ==
    /\ ctor = "threw"
    /\ supplied(ctorOpts.apikey)
    /\ supplied(ctorOpts.token)

\* C2 as stated: a call that got a response raises an error if and only if
\* the status is outside the expected set of its operation.
C2_Original ==
    \A c \in Calls :
        Answered(c) =>
            (calls[c].outcome.kind = "throw"
                <=> calls[c].resp.status \notin ExpectedStatus(calls[c].op))

\* C2 amended: a call that got a response raises an error whenever the
\* status is outside the expected set of its operation (so 409 is a success
\* for createEncryptedAccount only); with an expected status it raises only
\* when reading the response body fails (SyntaxError, TypeError or
\* RangeError), which it does for a body that is not JSON, and never for
\* createEncryptedAccount and createEncryptedWallet, which do not read it.
C2_StatusDecides ==
    \A c \in Calls :
        Answered(c) =>
            LET f == calls[c]
                expected == f.resp.status \in ExpectedStatus(f.op)
                readsBody == f.op \notin {"createEncryptedAccount",
                                           "createEncryptedWallet"}
            IN  /\ ~expected => f.outcome.kind = "throw"
                /\ (f.resp.status = 409 /\ f.op # "createEncryptedAccount")
                       => f.outcome.kind = "throw"
                /\ (expected /\ ~readsBody) => f.outcome.kind = "return"
                /\ (expected /\ f.outcome.kind = "throw")
                       => f.outcome.error.name
                              \in {"SyntaxError", "TypeError", "RangeError"}
                /\ (expected /\ readsBody /\ f.resp.body.kind = "text")
                       => (f.outcome.kind = "throw"
                           /\ f.outcome.error.name = "SyntaxError")

C2_Witness ==
    \E c \in Calls :
        /\ Answered(c)
        /\ calls[c].op = "createEncryptedAccount"
        /\ calls[c].resp.status = 409
        /\ calls[c].outcome.kind = "return"

\* C3: a call whose response has a status outside the expected set never
\* returns a value; it throws an Error whose message is the `error` field of
\* the JSON body when the body is an object with that field, and the parse
\* failure when the body is not JSON.
C3_ErrorMessage ==
    \A c \in Calls :
        (Answered(c) /\ calls[c].resp.status \notin ExpectedStatus(calls[c].op))
            => LET f == calls[c]
               IN  /\ f.outcome.kind = "throw"
                   /\ (f.resp.body.kind = "object"
                       /\ "error" \in DOMAIN f.resp.body.obj)
                          => (f.outcome.error.name = "Error"
                              /\ f.outcome.error.message = f.resp.body.obj.error)
                   /\ f.resp.body.kind = "text"
                          => f.outcome.error.name = "SyntaxError"

C3_Witness ==
    \E c \in Calls :
        /\ Answered(c)
        /\ calls[c].resp.status = 500
        /\ calls[c].resp.body = ObjectBody(ErrorObj)
        /\ calls[c].outcome.kind = "throw"
        /\ calls[c].outcome.error.message = DbDown

\* C4: every request carries exactly one header: apikey with the key when
\* the client was built with an apikey, Authorization with "Bearer " and the
\* token when it was built with a token.
C4_Headers ==
    \A c \in Calls :
        \A i \in 1 .. Len(calls[c].requests) :
            LET h == calls[c].requests[i].headers
            IN  /\ Cardinality(h) = 1
                /\ supplied(ctorOpts.apikey) => h = {<<"apikey", ctorOpts.apikey>>}
                /\ supplied(ctorOpts.token)
                       => h = {<<"Authorization", "Bearer " \o ctorOpts.token>>}
                /\ supplied(ctorOpts.apikey) \/ supplied(ctorOpts.token)

C4_Witness ==
    \E c \in Calls :
        /\ calls[c].requests # <<>>
        /\ ctorOpts.token = "t"
        /\ calls[c].requests[1].headers = {<<"Authorization", "Bearer t">>}

\* C5: a call of a request-performing operation that has ended has issued
\* exactly one request, and when fetch rejected, the call throws the value
\* fetch rejected with.
C5_OneRequest ==
    \A c \in Calls :
        (calls[c].pc = "settled" /\ calls[c].op \in RequestOps)
            => /\ Len(calls[c].requests) = 1
               /\ calls[c].resp.status = 0
                      => (calls[c].outcome.kind = "throw"
                          /\ calls[c].outcome.error \in TransportErrors)

\* C6: decoding the encoding of a buffer gives a buffer of the same length
\* with the same byte at every index; the empty buffer is encoded as "0x".
C6_RoundTrip ==
    /\ cpc = "decoded" =>
           /\ Len(decoded) = Len(buffer)
           /\ \A i \in 1 .. Len(buffer) : decoded[i] = buffer[i]
    /\ (cpc # "input" /\ buffer = <<>>) => hexstr = <<"0", "x">>

C6_Witness ==
    /\ cpc = "decoded"
    /\ buffer = <<1, 255>>
    /\ decoded = <<1, 255>>

\* C7: buf2hex of n bytes is "0x" followed by 2n characters: for each byte
\* in order, the lowercase digit of its high four bits, then the one of its
\* low four bits.
C7_Encoding ==
    cpc # "input" =>
        /\ Len(hexstr) = 2 + 2 * Len(buffer)
        /\ hexstr[1] = "0"
        /\ hexstr[2] = "x"
        /\ \A i \in 1 .. Len(buffer) :
               /\ hexstr[2 * i + 1] = HexDigits[(buffer[i] \div 16) + 1]
               /\ hexstr[2 * i + 2] = HexDigits[(buffer[i] % 16) + 1]

C7_Witness ==
    /\ cpc = "encoded"
    /\ buffer = <<0>>
    /\ hexstr = <<"0", "x", "0", "0">>

\* the hexadecimal numeral of an amount below 16^3, computed digit by digit
\* and without leading zeros
HexOfAmount(v) ==
    LET d == <<HexDigits[(v \div 256) + 1], HexDigits[((v \div 16) % 16) + 1],
               HexDigits[(v % 16) + 1]>>
    IN  IF v >= 256 THEN d[1] \o d[2] \o d[3]
        ELSE IF v >= 16 THEN d[2] \o d[3]
        ELSE d[3]

\* C8: the body of the request of relayTransaction is the JSON object with
\* relayer, from, to and signature as given, value the "0x"-prefixed
\* hexadecimal numeral of tx.value and data the buf2hex encoding of tx.data.
C8_RelayBody ==
    \A c \in Calls :
        (calls[c].op = "relayTransaction" /\ calls[c].requests # <<>>)
            => LET tx == calls[c].args.tx
               IN  calls[c].requests[1].body =
                       "{\"relayer\":\"" \o tx.relayer
                       \o "\",\"from\":\"" \o tx.from
                       \o "\",\"to\":\"" \o tx.to
                       \o "\",\"value\":\"0x" \o HexOfAmount(tx.value)
                       \o "\",\"data\":\"" \o join(buf2hex(tx.data))
                       \o "\",\"signature\":\"" \o tx.signature \o "\"}"

C8_Witness ==
    \E c \in Calls :
        /\ calls[c].op = "relayTransaction"
        /\ calls[c].args.tx.value = 255
        /\ calls[c].args.tx.data = <<1, 255>>
        /\ calls[c].requests # <<>>
        /\ calls[c].requests[1].body =
               "{\"relayer\":\"0xre\",\"from\":\"0xa1\",\"to\":\"0xb2\",\"value\":\"0xff\",\"data\":\"0x01ff\",\"signature\":\"0x51\"}"

\* the route of each operation
ExpectedRoute(f) ==
    LET net == "/ethereum/" \o ctorOpts.network[2]
    IN  IF f.op \in {"getIdentities", "createIdentity"}
        THEN net \o "/smartwallets"
        ELSE IF f.op \in {"getEOAs", "createEOA"} THEN "/ethereum/eoa"
        ELSE IF f.op = "signMessageWithEOA"
        THEN "/ethereum/eoa/" \o f.args.eoa \o "/sign-message"
        ELSE IF f.op = "sendTransaction" THEN net \o "/transaction"
        ELSE IF f.op = "createEncryptedAccount" THEN "/encryptedaccounts"
        ELSE IF f.op = "connectEncryptedAccount"
        THEN "/encryptedaccounts/connect"
        ELSE IF f.op \in {"createEncryptedWallet", "getEncryptedWallets"}
        THEN "/encryptedaccounts/wallets"
        ELSE IF f.op = "deployIdentityContract"
        THEN net \o "/contracts/relayableidentity"
        ELSE IF f.op = "getRelayParams"
        THEN net \o "/contracts/relayableidentity/" \o f.args.identity
                 \o "/relayParams"
        ELSE IF f.op = "relayTransaction"
        THEN net \o "/contracts/relayableidentity/" \o f.args.identity
                 \o "/relayExecute"
        ELSE net \o "/transactions/" \o f.args.txHashOrTrackingId

\* C9 as stated: every request goes to baseUrl + route, and it has no body
\* exactly when the body of the operation is empty: the GET operations and
\* createEOA.
C9_Original ==
    \A c \in Calls :
        calls[c].requests # <<>> =>
            /\ calls[c].requests[1].url
                   = ctorOpts.baseUrl \o ExpectedRoute(calls[c])
            /\ calls[c].requests[1].body = Null
                   <=> calls[c].op \in {"getIdentities", "getEOAs",
                                        "getTransaction", "createEOA"}

\* C9 amended: every request goes to baseUrl + route; it has no body exactly
\* when the operation passes null (the GET operations), and otherwise its
\* body is the JSON serialization of the object the operation passes, which
\* for the empty object of createEOA is the text {}.
C9_UrlAndBody ==
    \A c \in Calls :
        calls[c].requests # <<>> =>
            LET f == calls[c]
                r == f.requests[1]
            IN  /\ r.url = ctorOpts.baseUrl \o ExpectedRoute(f)
                /\ r.body = Null
                       <=> f.op \in {"getIdentities", "getEOAs", "getTransaction"}
                /\ f.op = "createEOA" => r.body = "{}"
                /\ f.op = "createIdentity"
                       => r.body = "{\"forwarder\":\"" \o f.args.forwarder
                                   \o "\",\"account\":\"" \o f.args.account \o "\"}"
                /\ f.op = "signMessageWithEOA"
                       => r.body = "{\"message\":\"" \o f.args.hash \o "\"}"
                /\ f.op = "deployIdentityContract"
                       => r.body = "{\"account\":\"" \o f.args.address \o "\"}"
                /\ f.op = "getRelayParams"
                       => r.body = "{\"account\":\"" \o f.args.account
                                   \o "\",\"channel_id\":\""
                                   \o ToString(f.args.channel) \o "\"}"

C9_Witness ==
    \E c \in Calls :
        /\ calls[c].op = "createEOA"
        /\ calls[c].requests # <<>>
        /\ calls[c].requests[1].url = "https://x/ethereum/eoa"
        /\ calls[c].requests[1].body = "{}"

\* the configuration and the header set are those of the construction
ConfigAsConstructed ==
    /\ opts = ctorOpts
    /\ supplied(ctorOpts.apikey) => headers = {<<"apikey", ctorOpts.apikey>>}
    /\ supplied(ctorOpts.token)
           => headers = {<<"Authorization", "Bearer " \o ctorOpts.token>>}

\* two ended calls of the same operation with the same arguments and the
\* same response have the same outcome
OwnOutcome ==
    \A c, d \in Calls :
        (/\ Answered(c)
         /\ Answered(d)
         /\ calls[c].op = calls[d].op
         /\ calls[c].args = calls[d].args
         /\ calls[c].resp = calls[d].resp)
            => calls[c].outcome = calls[d].outcome

\* C10: with several calls in flight on one client, in every interleaving
\* the configuration and the header set stay what the construction made
\* them, no step changes them, and the outcome of a call depends on its own
\* operation, arguments and response only.
C10_NoInterference ==
    /\ [](ctor = "ok" => (ConfigAsConstructed /\ OwnOutcome))
    /\ [][ctor = "ok" => (opts' = opts /\ headers' = headers)]_vars

C10_Witness ==
    \E c, d \in Calls :
        /\ c # d
        /\ Answered(c)
        /\ Answered(d)
        /\ calls[c].op = calls[d].op
        /\ calls[c].args = calls[d].args
        /\ calls[c].resp # calls[d].resp
        /\ calls[c].outcome.kind = "return"
        /\ calls[d].outcome.kind = "throw"

====
